---- MODULE Spec2Model ----
(***************************************************************************)
(* Sale transaction engine of blcm-sales-and-inventory.                    *)
(*                                                                         *)
(* The database holds the Product collection (stockQuantity, price, and    *)
(* which documents exist) and the Sale collection.  Request handlers       *)
(* (createSale, voidSale, deleteProduct) run as processes; every await on  *)
(* the database is one step, so that handlers interleave exactly where     *)
(* the event loop lets them.  The validators of POST /api/sales,           *)
(* updateProduct and the reports getSalesReport, getTopProducts and        *)
(* getRevenueTrends are modelled for requests served one at a time;        *)
(* updateStock runs as a process beside the sales handlers.                *)
(*                                                                         *)
(* Time is counted in ticks of the server clock.  A calendar day has       *)
(* TicksPerDay ticks; the last tick of a day stands for 23:59:59.999.      *)
(* The server's local time is UTC plus tz ticks.                           *)
(***************************************************************************)
EXTENDS Integers, Sequences, FiniteSets, TLC

\* ---------------------------------------------------------------- bounds
NumProcs == 2
MaxStock == 2
MaxQty == 2
MaxItems == 2
MaxCalls == 3
MaxCreates == 2
MaxTime == 2
TicksPerDay == 2
MaxRawItems == 1

\* ------------------------------------------------------ program constants
VatRatePercent == 12
MinStockQuantity == 0
MinPrice == 0

Products == {"A", "B"}
Procs == 1..NumProcs

\* req.user._id: every handler process serves the session of one user
UserOf(self) == self

InitPrice == [p \in Products |-> IF p = "A" THEN 100 ELSE 25]
InitStock == [p \in Products |-> IF p = "A" THEN MaxStock ELSE MaxStock - 1]

VARIABLES
    stock,      \* Product.stockQuantity of every product document
    price,      \* Product.price
    exists,     \* the product documents present in the collection
    sales,      \* the Sale collection, in insertion order; _id = index
    clock,      \* the server clock, in ticks (UTC)
    tz,         \* offset of the server's local time from UTC, in ticks
    proc,       \* the request handler each process is running
    prev,       \* the call that completed last
    calls,      \* number of requests received so far
    creates,    \* number of createSale requests received so far
    stock0,     \* stockQuantity of every product at start-up
    active      \* Product.isActive

vars == <<stock, price, exists, sales, clock, tz, proc, prev, calls, creates, stock0,
          active>>

\* ------------------------------------------------------------ time
UtcDay(t) == t \div TicksPerDay
LocalDay(t) == (t + tz) \div TicksPerDay
\* date.setHours(0, 0, 0, 0): the server-local midnight before t
StartOfLocalDay(t) == LocalDay(t) * TicksPerDay - tz
\* date.setHours(23, 59, 59, 999): the last tick of the same local day
EndOfLocalDay(t) == StartOfLocalDay(t) + TicksPerDay - 1

\* ------------------------------------------------------------ carts
Items == [product : Products, quantity : 1..MaxQty]

Carts == UNION {[1..n -> Items] : n \in 1..MaxItems}

ProductIds(items) == {items[i].product : i \in 1..Len(items)}

NoDocs == [p \in {} |-> 0]

RECURSIVE SumSeq(_, _)
SumSeq(f, n) == IF n = 0 THEN 0 ELSE f[n] + SumSeq(f, n - 1)

\* quantity of product p over the line items of a sale or cart
QtyOf(items, p) ==
    SumSeq([i \in 1..Len(items) |->
              IF items[i].product = p THEN items[i].quantity ELSE 0],
           Len(items))

\* ------------------------------------------------- POST /api/sales bodies
\* the payment methods of the data model of the specification
SpecifiedMethods == {"cash", "card", "mobile", "other"}

\* isIn([...]) of the paymentMethod validator
PaymentMethods == {"cash", "card", "mobile_payment", "other"}

\* the paymentMethod values clients send
Methods == PaymentMethods \cup {"mobile"}

\* the optional discount of a body: no element when the field is absent
Discounts == {{}, {0}, {5}}

\* the items a client may send, valid or not
RawItems == [product : Products, quantity : 0..MaxQty]

RawCarts == UNION {[1..n -> RawItems] : n \in 0..MaxRawItems}

\* the body the point of sale sends: a valid cart, paid in cash, discount 0
CashBody(cart) == [items |-> cart, paymentMethod |-> "cash", discount |-> {0}]

\* the bodies sent: any combination of fields on a short cart, and the
\* bodies of the point of sale
Bodies ==
    [items : RawCarts, paymentMethod : Methods, discount : Discounts]
        \cup {CashBody(cart) : cart \in Carts}

\* the messages of the validators of the route that fail on the body
ValidationErrors(body) ==
    {m \in {"At least one item is required", "Quantity must be at least 1",
            "Invalid payment method", "Discount cannot be negative"} :
        \/ m = "At least one item is required" /\ Len(body.items) < 1
        \/ m = "Quantity must be at least 1"
              /\ \E i \in 1..Len(body.items) : body.items[i].quantity < 1
        \/ m = "Invalid payment method"
              /\ body.paymentMethod \notin PaymentMethods
        \/ m = "Discount cannot be negative"
              /\ \E d \in body.discount : d < 0}

\* handleValidationErrors: the request is answered with the errors and never
\* reaches the controller when a validator has failed
HandleValidationErrors(body) == ValidationErrors(body) # {}

\* ------------------------------------------------------------ Product model
\* productSchema.stockQuantity: min 0, checked by save() on the document
StockValid(q) == q >= MinStockQuantity

\* a save that applied the handler's change as an increment of the stored value
IncStockQuantity(cur, asRead, doc) == cur + (doc - asRead)

\* a save that leaves the stored value as it is
KeepStockQuantity(cur, asRead, doc) == cur

\* product.save(): the document's stockQuantity is written with $set, so the
\* stored value becomes the in-memory value doc whatever the stored value cur
\* is by then; asRead is the value the handler had loaded
SaveStockQuantity(cur, asRead, doc) == doc

\* save() of a product document: fails when validation fails or when the
\* document has been deleted meanwhile
SaveSucceeds(p, doc) == p \in exists /\ StockValid(doc)

\* ------------------------------------------------------------ Sale model
\* Sale.saleNumber carries a unique index
SaleNumberTaken(n) == \E i \in 1..Len(sales) : sales[i].saleNumber = n

\* ------------------------------------------------------ generateSaleNumber
\* Sale.countDocuments({createdAt: {$gte: start of local day, $lt: end}})
CountSalesToday(now) ==
    Cardinality({i \in 1..Len(sales) :
                    /\ sales[i].createdAt >= StartOfLocalDay(now)
                    /\ sales[i].createdAt < EndOfLocalDay(now)})

\* `SALE-${dateStr}-${padStart(count + 1)}`: dateStr is the UTC date of now
\* (toISOString), the sequence counts the sales of now's local day.  The
\* string is determined by, and determines, the pair (date, seq).
GenerateSaleNumber(now) ==
    [date |-> UtcDay(now), seq |-> CountSalesToday(now) + 1]

NoNumber == [date |-> -1, seq |-> 0]

\* ------------------------------------------------------------ createSale
\* a stock check that also turns down a request for all that is left
NoStockLeft(available, requested) == available <= requested

\* product.stockQuantity < item.quantity
InsufficientStock(available, requested) == available < requested

\* a line priced at the price the product had at start-up
ListPrice(p) == InitPrice[p]

\* price: product.price, of the document as loaded
UnitPrice(p) == price[p]

\* the loop over the cart: validates stock, prices each line and decrements
\* the in-memory documents docs; nothing is written here
RECURSIVE PriceItems(_, _, _, _, _)
PriceItems(cart, i, docs, items, subtotal) ==
    IF i > Len(cart)
    THEN [status |-> "ok", docs |-> docs, items |-> items,
          subtotal |-> subtotal, available |-> 0, requested |-> 0]
    ELSE LET p == cart[i].product
             q == cart[i].quantity
         IN  IF p \notin DOMAIN docs
             THEN [status |-> "NotFound", docs |-> docs, items |-> items,
                   subtotal |-> subtotal, available |-> 0, requested |-> 0]
             ELSE IF InsufficientStock(docs[p], q)
             THEN [status |-> "InsufficientStock", docs |-> docs,
                   items |-> items, subtotal |-> subtotal,
                   available |-> docs[p], requested |-> q]
             ELSE PriceItems(cart, i + 1, [docs EXCEPT ![p] = @ - q],
                             Append(items, [product |-> p, quantity |-> q,
                                            price |-> UnitPrice(p),
                                            subtotal |-> UnitPrice(p) * q]),
                             subtotal + UnitPrice(p) * q)

\* a checking loop that saves every product document as soon as it has
\* decremented it
SavedInLoop(r) ==
    [p \in Products |-> IF p \in DOMAIN r.docs THEN r.docs[p] ELSE stock[p]]

\* a handler that takes a unit of every product off the stock as soon as it
\* has loaded the product
TakenOnLoad(r) ==
    [p \in Products |-> IF p \in DOMAIN r.docs /\ stock[p] > 0
                        THEN stock[p] - 1 ELSE stock[p]]

\* the stored stock once the loop has ended with outcome r: the loop changes
\* the loaded documents only, nothing is saved before line 150
StockAfterCheck(r) == stock

\* Product.find({_id: {$in: productIds}}) followed by the length check and
\* the loop
\* a check that counts the distinct product ids of the cart
CheckDistinct(cart) ==
    LET found == ProductIds(cart) \cap exists
        docs == [p \in found |-> stock[p]]
    IN  IF Cardinality(found) # Cardinality(ProductIds(cart))
        THEN [status |-> "NotFound", docs |-> docs, items |-> <<>>,
              subtotal |-> 0, available |-> 0, requested |-> 0]
        ELSE PriceItems(cart, 1, docs, <<>>, 0)

CheckCart(cart) ==
    LET found == ProductIds(cart) \cap exists
        docs == [p \in found |-> stock[p]]
    IN  IF Cardinality(found) # Len(cart)
        THEN [status |-> "NotFound", docs |-> docs, items |-> <<>>,
              subtotal |-> 0, available |-> 0, requested |-> 0]
        ELSE PriceItems(cart, 1, docs, <<>>, 0)

\* the document handed to Sale.create.  Prices, line subtotals, subtotal
\* and discount are in minor units (cents); tax and total are kept in
\* hundredths of a cent, so that the 12% VAT of any subtotal is a whole
\* number: tax = subtotal * 0.12 and total = subtotal + tax, as computed,
\* without rounding.  The discount of the body is not read.
NewSale(number, items, subtotal, paymentMethod, user, now) ==
    [saleNumber |-> number, items |-> items, subtotal |-> subtotal,
     discount |-> 0, tax |-> subtotal * VatRatePercent,
     total |-> subtotal * 100 + subtotal * VatRatePercent,
     paymentMethod |-> paymentMethod,
     cashier |-> user, createdAt |-> now,
     isVoid |-> FALSE, voidedAt |-> -1, voidedBy |-> 0]

\* ------------------------------------------------------------ processes
\* what a handler finds in the Product collection when its request arrives
Db == [stock |-> stock, exists |-> exists]

NoCall == [op |-> "none", result |-> "none", saleId |-> 0,
           before |-> [p \in Products |-> 0]]

\* a JavaScript number that is the quotient of two integers, or not a number
Zero == [kind |-> "number", num |-> 0, den |-> 1]

NoQuery == [start |-> 0, end |-> 0, limit |-> 0, groupBy |-> "none"]

NoReport == [totalSales |-> 0, totalRevenue |-> 0, totalVAT |-> 0,
             averageSaleValue |-> Zero, salesByDate |-> <<>>, top |-> <<>>,
             trend |-> <<>>]

Idle == [pc |-> "idle", op |-> "none", cart |-> <<>>, saleId |-> 0,
         operation |-> "none",
         paymentMethod |-> "none", discount |-> {}, errors |-> {},
         query |-> NoQuery, report |-> NoReport,
         user |-> 0, asRead |-> NoDocs, docs |-> NoDocs, pending |-> {}, failed |-> FALSE,
         items |-> <<>>, subtotal |-> 0, number |-> NoNumber,
         result |-> "none", available |-> 0, requested |-> 0,
         before |-> [stock |-> [p \in Products |-> 0], exists |-> {}]]

Busy(self) == proc[self].pc \notin {"idle", "done"}

\* a request is handed to the first handler process that is free
Ready(self) ==
    /\ ~Busy(self)
    /\ \A q \in Procs : q < self => Busy(q)
    /\ calls < MaxCalls

Quiet == \A q \in Procs : ~Busy(q)

\* the handler of process self answers: rec is its record, with the result
Respond(self, rec) ==
    /\ proc' = [proc EXCEPT ![self] =
                  [rec EXCEPT !.pc = "done", !.asRead = NoDocs,
                              !.docs = NoDocs, !.pending = {},
                              !.items = <<>>, !.subtotal = 0]]
    /\ prev' = [op |-> rec.op, result |-> rec.result, saleId |-> rec.saleId,
                before |-> rec.before.stock]

\* createSale, lines 95-147: the request with this body has passed the
\* validators, the products are loaded and the cart is checked against the
\* loaded documents
CreateSale(self, body) ==
    /\ Ready(self)
    /\ creates < MaxCreates
    /\ calls' = calls + 1
    /\ creates' = creates + 1
    /\ LET cart == body.items
           r == CheckCart(cart)
           rec == [Idle EXCEPT !.op = "createSale", !.cart = cart,
                               !.paymentMethod = body.paymentMethod,
                               !.discount = body.discount,
                               !.user = UserOf(self), !.before = Db,
                               !.asRead = [p \in ProductIds(cart) \cap exists
                                             |-> stock[p]],
                               !.docs = r.docs, !.items = r.items,
                               !.subtotal = r.subtotal]
       IN  IF r.status = "ok"
           THEN /\ proc' = [proc EXCEPT ![self] =
                              [rec EXCEPT !.pc = "cs_save",
                                          !.pending = DOMAIN r.docs]]
                /\ UNCHANGED prev
           ELSE Respond(self, [rec EXCEPT !.result = r.status,
                                          !.available = r.available,
                                          !.requested = r.requested])
    /\ stock' = StockAfterCheck(CheckCart(body.items))
    /\ UNCHANGED <<price, exists, sales, clock, tz, stock0, active>>

\* the point of sale sends a valid cart, paid in cash
CreateSaleFind(self, cart) == CreateSale(self, CashBody(cart))

\* POST /api/sales with any body: the validators of the route run first
PostSale(self, body) ==
    IF HandleValidationErrors(body)
    THEN /\ Ready(self)
         /\ calls' = calls + 1
         /\ Respond(self, [Idle EXCEPT !.op = "createSale",
                                       !.cart = body.items,
                                       !.paymentMethod = body.paymentMethod,
                                       !.discount = body.discount,
                                       !.user = UserOf(self), !.before = Db,
                                       !.result = "ValidationError",
                                       !.errors = ValidationErrors(body)])
         /\ UNCHANGED <<stock, price, exists, sales, clock, tz, creates, stock0, active>>
    ELSE CreateSale(self, body)

\* one of the product.save() calls of Promise.all(products.map(save)),
\* shared by createSale (line 150) and voidSale (line 239)
\* a save that is tried again when it fails
SaveWithRetry(self, p, nextPc) ==
    LET me == proc[self]
        ok == SaveSucceeds(p, me.docs[p])
    IN  /\ p \in me.pending
        /\ stock' = IF ok
                    THEN [stock EXCEPT ![p] =
                            SaveStockQuantity(@, me.asRead[p], me.docs[p])]
                    ELSE stock
        /\ proc' = [proc EXCEPT ![self] =
                      [me EXCEPT !.pending = IF ok THEN @ \ {p} ELSE @,
                                 !.failed = @ \/ ~ok,
                                 !.pc = IF ok /\ me.pending = {p}
                                        THEN nextPc ELSE @]]
        /\ UNCHANGED <<price, exists, sales, clock, tz, prev, calls, creates, stock0, active>>

SaveProduct(self, p, nextPc) ==
    LET me == proc[self]
        ok == SaveSucceeds(p, me.docs[p])
        newStock == IF ok
                    THEN [stock EXCEPT ![p] =
                            SaveStockQuantity(@, me.asRead[p], me.docs[p])]
                    ELSE stock
        rec == [me EXCEPT !.pending = @ \ {p}, !.failed = @ \/ ~ok]
    IN  /\ p \in me.pending
        /\ stock' = newStock
        /\ IF rec.pending # {}
           THEN proc' = [proc EXCEPT ![self] = rec] /\ UNCHANGED prev
           ELSE IF rec.failed
           THEN Respond(self, [rec EXCEPT !.result = "error"])
           ELSE proc' = [proc EXCEPT ![self] = [rec EXCEPT !.pc = nextPc]]
                /\ UNCHANGED prev
        /\ UNCHANGED <<price, exists, sales, clock, tz, calls, creates, stock0, active>>

CreateSaleSave(self, p) ==
    /\ proc[self].pc = "cs_save"
    /\ SaveProduct(self, p, "cs_number")

\* line 158: await generateSaleNumber()
CreateSaleNumber(self) ==
    /\ proc[self].pc = "cs_number"
    /\ proc' = [proc EXCEPT ![self] =
                  [@ EXCEPT !.pc = "cs_create",
                            !.number = GenerateSaleNumber(clock)]]
    /\ UNCHANGED <<stock, price, exists, sales, clock, tz, prev, calls, creates, stock0, active>>

\* lines 160-181: Sale.create, then the 201 response; a duplicate saleNumber
\* makes Sale.create throw and the handler passes the error on
CreateSaleCreate(self) ==
    LET me == proc[self]
    IN  /\ me.pc = "cs_create"
        /\ IF SaleNumberTaken(me.number)
           THEN /\ Respond(self, [me EXCEPT !.result = "error"])
                /\ UNCHANGED sales
           ELSE /\ sales' = Append(sales, NewSale(me.number, me.items,
                                                  me.subtotal, me.paymentMethod,
                                                  me.user, clock))
                /\ Respond(self, [me EXCEPT !.result = "ok",
                                            !.saleId = Len(sales) + 1])
        /\ UNCHANGED <<stock, price, exists, clock, tz, calls, creates, stock0, active>>

\* ------------------------------------------------------------ voidSale
\* the loop of lines 229-236 over the items from index i on: every item's
\* quantity is added to the in-memory document of its product
\* a restoring loop that puts back one unit per line item
RECURSIVE RestoreUnits(_, _, _)
RestoreUnits(items, i, docs) ==
    IF i > Len(items)
    THEN docs
    ELSE LET p == items[i].product
         IN  RestoreUnits(items, i + 1,
                          IF p \in DOMAIN docs
                          THEN [docs EXCEPT ![p] = @ + 1]
                          ELSE docs)

\* a guard that lets a voided sale through
NeverVoided(sale) == FALSE

\* if (sale.isVoid): the sale as loaded is already void
IsVoided(sale) == sale.isVoid

RECURSIVE RestoreItems(_, _, _)
RestoreItems(items, i, docs) ==
    IF i > Len(items)
    THEN docs
    ELSE LET p == items[i].product
         IN  RestoreItems(items, i + 1,
                          IF p \in DOMAIN docs
                          THEN [docs EXCEPT ![p] = @ + items[i].quantity]
                          ELSE docs)

\* lines 194-214: the request arrives and the sale is loaded with its
\* products populated; a line item whose product is gone is populated with
\* null, and reading its _id throws
VoidSaleLoad(self, id) ==
    /\ Ready(self)
    /\ calls' = calls + 1
    /\ LET rec == [Idle EXCEPT !.op = "voidSale", !.saleId = id,
                               !.user = UserOf(self), !.before = Db]
       IN  IF id > Len(sales)
           THEN Respond(self, [rec EXCEPT !.result = "NotFound"])
           ELSE IF IsVoided(sales[id])
           THEN Respond(self, [rec EXCEPT !.result = "AlreadyVoid"])
           ELSE IF ~(ProductIds(sales[id].items) \subseteq exists)
           THEN Respond(self, [rec EXCEPT !.result = "error"])
           ELSE /\ proc' = [proc EXCEPT ![self] =
                              [rec EXCEPT !.pc = "vs_find",
                                          !.items = sales[id].items]]
                /\ UNCHANGED prev
    /\ UNCHANGED <<stock, price, exists, sales, clock, tz, creates, stock0, active>>

\* lines 216-236: the products are loaded and the quantities added in memory
VoidSaleFind(self) ==
    LET me == proc[self]
        found == ProductIds(me.items) \cap exists
        docs == [p \in found |-> stock[p]]
    IN  /\ me.pc = "vs_find"
        /\ IF Cardinality(found) # Len(me.items)
           THEN Respond(self, [me EXCEPT !.result = "NotFound"])
           ELSE /\ proc' = [proc EXCEPT ![self] =
                              [me EXCEPT !.pc = "vs_save", !.asRead = docs,
                                         !.docs = RestoreItems(me.items, 1, docs),
                                         !.pending = found]]
                /\ UNCHANGED prev
        /\ UNCHANGED <<stock, price, exists, sales, clock, tz, calls, creates, stock0, active>>

VoidSaleSave(self, p) ==
    /\ proc[self].pc = "vs_save"
    /\ SaveProduct(self, p, "vs_mark")

\* the fields sale.save() writes: the paths modified at lines 242-244
MarkVoid(sale, user, now) ==
    [sale EXCEPT !.isVoid = TRUE, !.voidedAt = now, !.voidedBy = user]

\* lines 241-255: the sale is marked void and saved, then the response
VoidSaleMark(self) ==
    LET me == proc[self]
    IN  /\ me.pc = "vs_mark"
        /\ sales' = [sales EXCEPT ![me.saleId] = MarkVoid(@, me.user, clock)]
        /\ Respond(self, [me EXCEPT !.result = "ok"])
        /\ UNCHANGED <<stock, price, exists, clock, tz, calls, creates, stock0, active>>

\* lines 245 and 256-258: sale.save() is rejected, the connection to the
\* database being lost or the server stopping after the products were
\* saved; nothing is written and the error goes to next(error)
VoidSaleAbandon(self) ==
    LET me == proc[self]
    IN  /\ me.pc = "vs_mark"
        /\ Respond(self, [me EXCEPT !.result = "error"])
        /\ UNCHANGED <<stock, price, exists, sales, clock, tz, calls, creates, stock0, active>>

\* ------------------------------------------------------------ deleteProduct
\* Product.findByIdAndDelete(id) on a product that exists
DeleteProduct(p) ==
    /\ calls < MaxCalls
    /\ p \in exists
    /\ exists' = exists \ {p}
    /\ calls' = calls + 1
    /\ prev' = [NoCall EXCEPT !.op = "deleteProduct", !.result = "ok",
                               !.before = stock]
    /\ UNCHANGED <<stock, price, sales, clock, tz, proc, creates, stock0, active>>

\* ------------------------------------------------------------ updateProduct
\* productSchema.price: min 0, checked by runValidators
PriceValid(v) == v >= MinPrice

\* the prices a PUT /api/products/:id body may carry
NewPrices == {-1, 99}

\* the bodies of PUT /api/products/:id: a new price or a new isActive flag;
\* a field that is absent has no element
Patches ==
    {[price |-> {v}, isActive |-> {}] : v \in NewPrices}
        \cup {[price |-> {}, isActive |-> {b}] : b \in BOOLEAN}

\* the value of a field after the update: the value of the body when the
\* body has the field
Patched(old, field) == IF field = {} THEN old ELSE CHOOSE v \in field : TRUE

\* Product.findById, then Product.findByIdAndUpdate(id, req.body,
\* {runValidators: true}): only the product document is written
UpdateProduct(p, patch) ==
    /\ calls < MaxCalls
    /\ calls' = calls + 1
    /\ LET result == IF p \notin exists THEN "NotFound"
                     ELSE IF \E v \in patch.price : ~PriceValid(v)
                     THEN "error" ELSE "ok"
       IN  /\ prev' = [NoCall EXCEPT !.op = "updateProduct",
                                     !.result = result, !.before = stock]
           /\ IF result = "ok"
              THEN /\ price' = [price EXCEPT ![p] = Patched(@, patch.price)]
                   /\ active' = [active EXCEPT ![p] = Patched(@, patch.isActive)]
              ELSE UNCHANGED <<price, active>>
    /\ UNCHANGED <<stock, exists, sales, clock, tz, proc, creates, stock0>>

\* ------------------------------------------------------------ updateStock
\* the bodies of PUT /api/inventory/:id/stock that pass the validators of
\* the route: quantity an integer of at least 0, operation 'add' or 'set'
\* or absent, which the handler reads as 'set' (line 88)
StockEdits == [quantity : 0..MaxQty, operation : {"add", "set"}]

\* lines 90-94: the stockQuantity of the loaded document after the edit
EditedQuantity(loaded, edit) ==
    IF edit.operation = "add" THEN loaded + edit.quantity ELSE edit.quantity

\* updateStock, lines 60-94, called by an administrator: the product is
\* loaded and its quantity changed in memory
UpdateStockFind(self, p, edit) ==
    /\ ~Busy(self)
    /\ calls < MaxCalls
    /\ calls' = calls + 1
    /\ LET rec == [Idle EXCEPT !.op = "updateStock",
                               !.operation = edit.operation,
                               !.cart = <<[product |-> p,
                                           quantity |-> edit.quantity]>>,
                               !.user = UserOf(self), !.before = Db]
       IN  IF p \notin exists
           THEN Respond(self, [rec EXCEPT !.result = "NotFound"])
           ELSE /\ proc' = [proc EXCEPT ![self] =
                              [rec EXCEPT
                                 !.pc = "us_save",
                                 !.asRead = [q \in {p} |-> stock[p]],
                                 !.docs = [q \in {p} |->
                                             EditedQuantity(stock[p], edit)],
                                 !.pending = {p}]]
                /\ UNCHANGED prev
    /\ UNCHANGED <<stock, price, exists, sales, clock, tz, creates, stock0, active>>

\* lines 96-106: product.save(), then the response
UpdateStockSave(self) ==
    LET me == proc[self]
        p == me.cart[1].product
        ok == SaveSucceeds(p, me.docs[p])
    IN  /\ me.pc = "us_save"
        /\ stock' = IF ok
                    THEN [stock EXCEPT ![p] =
                            SaveStockQuantity(@, me.asRead[p], me.docs[p])]
                    ELSE stock
        /\ Respond(self, [me EXCEPT !.result = IF ok THEN "ok" ELSE "error"])
        /\ UNCHANGED <<price, exists, sales, clock, tz, calls, creates, stock0, active>>

\* ------------------------------------------------------------ reports
\* the days a report may be asked for, as dates YYYY-MM-DD
Days == 0..UtcDay(MaxTime)

\* new Date("YYYY-MM-DD"): midnight UTC of the day
DateOf(day) == day * TicksPerDay

\* a / b on JavaScript numbers
Quotient(a, b) ==
    IF b = 0
    THEN [kind |-> IF a = 0 THEN "NaN" ELSE "Infinity", num |-> 0, den |-> 0]
    ELSE [kind |-> "number", num |-> a, den |-> b]

\* getSalesReport, lines 20-22 and the $match of lines 29-32: start is
\* midnight UTC of startDate; end is midnight UTC of endDate moved by
\* setHours(23, 59, 59, 999) to the end of the server-local day it lies in
SalesMatched(startDate, endDate) ==
    {i \in 1..Len(sales) :
        /\ sales[i].createdAt >= DateOf(startDate)
        /\ sales[i].createdAt <= EndOfLocalDay(DateOf(endDate))
        /\ sales[i].isVoid = FALSE}

\* $sum of the field of the sales in the set matched
SumOver(matched, field) ==
    SumSeq([i \in 1..Len(sales) |->
              IF i \in matched THEN sales[i][field] ELSE 0],
           Len(sales))

\* lines 27-42: $group with _id null gives one document, or none when no
\* sale matches
SummaryResult(matched) ==
    IF matched = {}
    THEN <<>>
    ELSE <<[totalSales |-> Cardinality(matched),
            totalRevenue |-> SumOver(matched, "total"),
            totalVAT |-> SumOver(matched, "tax")]>>

\* line 73: summaryResult[0] || { totalSales: 0, totalRevenue: 0, totalVAT: 0 }
SummaryOrZero(result) ==
    IF Len(result) > 0
    THEN result[1]
    ELSE [totalSales |-> 0, totalRevenue |-> 0, totalVAT |-> 0]

\* an average computed without looking at the count
UnguardedAverage(summary) == Quotient(summary.totalRevenue, summary.totalSales)

\* line 86: totalSales > 0 ? totalRevenue / totalSales : 0
AverageSaleValue(summary) ==
    IF summary.totalSales > 0
    THEN Quotient(summary.totalRevenue, summary.totalSales)
    ELSE Zero

\* lines 44-61 and 74-77: count and revenue of the matched sales by UTC date
SalesByDate(matched) ==
    [d \in {UtcDay(sales[i].createdAt) : i \in matched} |->
        LET ofDay == {i \in matched : UtcDay(sales[i].createdAt) = d}
        IN  [count |-> Cardinality(ofDay),
             revenue |-> SumOver(ofDay, "total")]]

\* the response of getSalesReport, lines 79-90 (the list of the sales
\* themselves aside)
SalesReport(startDate, endDate) ==
    LET matched == SalesMatched(startDate, endDate)
        summary == SummaryOrZero(SummaryResult(matched))
    IN  [NoReport EXCEPT !.totalSales = summary.totalSales,
                         !.totalRevenue = summary.totalRevenue,
                         !.totalVAT = summary.totalVAT,
                         !.averageSaleValue = AverageSaleValue(summary),
                         !.salesByDate = SalesByDate(matched)]

\* GET /api/reports/sales?startDate=..&endDate=..
GetSalesReport(self, startDate, endDate) ==
    /\ ~Busy(self)
    /\ Respond(self, [Idle EXCEPT !.op = "getSalesReport",
                                  !.query = [NoQuery EXCEPT !.start = startDate,
                                                            !.end = endDate],
                                  !.report = SalesReport(startDate, endDate),
                                  !.result = "ok"])
    /\ UNCHANGED <<stock, price, exists, sales, clock, tz, calls, creates, stock0, active>>

\* getTopProducts, lines 160-166: both ends of the window are midnight UTC
TopMatched(startDate, endDate) ==
    {i \in 1..Len(sales) :
        /\ sales[i].isVoid = FALSE
        /\ sales[i].createdAt >= DateOf(startDate)
        /\ sales[i].createdAt <= DateOf(endDate)}

\* the line items of product p of the sales matched ($unwind), as pairs of
\* the sale and the position of the item in it
ItemsOf(matched, p) ==
    {ik \in matched \X (1..MaxItems) :
        /\ ik[2] <= Len(sales[ik[1]].items)
        /\ sales[ik[1]].items[ik[2]].product = p}

\* $sum of the field over the line items of product p of the sales matched
\* ($group by items.product)
SumItems(matched, p, field) ==
    SumSeq([i \in 1..Len(sales) |->
              SumSeq([k \in 1..Len(sales[i].items) |->
                        IF <<i, k>> \in ItemsOf(matched, p)
                        THEN sales[i].items[k][field] ELSE 0],
                     Len(sales[i].items))],
           Len(sales))

\* lines 173-203: one group per product sold in the matched sales; $lookup
\* and $unwind drop the groups whose product document is gone
TopEntries(matched) ==
    {[productId |-> p,
      totalQuantity |-> SumItems(matched, p, "quantity"),
      totalRevenue |-> SumItems(matched, p, "subtotal"),
      saleCount |-> Cardinality(ItemsOf(matched, p))] :
        p \in {q \in exists :
                  \E i \in matched : q \in ProductIds(sales[i].items)}}

\* $sort: { totalRevenue: -1 }: the orders of the entries in which the
\* revenue never increases; entries of equal revenue come in any order
SortedByRevenue(entries) ==
    {order \in [1..Cardinality(entries) -> entries] :
        /\ \A e \in entries : \E k \in DOMAIN order : order[k] = e
        /\ \A j, k \in DOMAIN order :
              j < k => order[j].totalRevenue >= order[k].totalRevenue}

\* $limit
Limit(order, n) == SubSeq(order, 1, IF n < Len(order) THEN n ELSE Len(order))

\* the values of the limit parameter
Limits == 1..Cardinality(Products)

\* GET /api/reports/top-products?startDate=..&endDate=..&limit=..
GetTopProducts(self, startDate, endDate, limit) ==
    /\ ~Busy(self)
    /\ \E order \in SortedByRevenue(TopEntries(TopMatched(startDate, endDate))) :
          Respond(self, [Idle EXCEPT !.op = "getTopProducts",
                                    !.query = [NoQuery EXCEPT
                                                 !.start = startDate,
                                                 !.end = endDate,
                                                 !.limit = limit],
                                    !.report = [NoReport EXCEPT
                                                  !.top = Limit(order, limit)],
                                    !.result = "ok"])
    /\ UNCHANGED <<stock, price, exists, sales, clock, tz, calls, creates, stock0, active>>

\* the startDate and endDate parameters of a trends request: absent, or a
\* date YYYY-MM-DD
Dates == {{}} \cup {{day} : day \in Days}

\* the groupBy parameter: the three the switch of lines 243-252 knows, and
\* one it does not
Granularities == {"day", "week", "month", "year"}

\* $dateToString '%Y-%U' of a day: the week of the year, weeks beginning on
\* Sunday; day 0 is a Saturday
WeekOf(day) == (day + 6) \div 7

\* $dateToString '%Y-%m' of a day: day 0 is the first day of a month of 30
MonthOf(day) == day \div 30

\* lines 242-252 and 265-266: the label of the bucket of a sale created at
\* time t, the UTC date formatted by the format of the groupBy parameter;
\* labels are numbered in the order of their strings
TrendLabel(groupBy, t) ==
    CASE groupBy = "week" -> WeekOf(UtcDay(t))
      [] groupBy = "month" -> MonthOf(UtcDay(t))
      [] OTHER -> UtcDay(t)

\* a $match on the window alone
TrendAllSales(startDate, endDate) ==
    {i \in 1..Len(sales) :
        /\ sales[i].createdAt >= DateOf(startDate)
        /\ sales[i].createdAt <= EndOfLocalDay(DateOf(endDate))}

\* getRevenueTrends, lines 238-240 and the $match of lines 257-261
TrendMatched(startDate, endDate) ==
    {i \in 1..Len(sales) :
        /\ sales[i].createdAt >= DateOf(startDate)
        /\ sales[i].createdAt <= EndOfLocalDay(DateOf(endDate))
        /\ sales[i].isVoid = FALSE}

\* lines 262-281: $group by the label, then $project
TrendBuckets(matched, groupBy) ==
    {[date |-> d,
      revenue |-> SumOver({i \in matched :
                              TrendLabel(groupBy, sales[i].createdAt) = d},
                          "total"),
      sales |-> Cardinality({i \in matched :
                                TrendLabel(groupBy, sales[i].createdAt) = d})] :
        d \in {TrendLabel(groupBy, sales[i].createdAt) : i \in matched}}

\* line 283, $sort: { date: 1 }
SortedByDate(buckets) ==
    CHOOSE order \in [1..Cardinality(buckets) -> buckets] :
        /\ \A b \in buckets : \E k \in DOMAIN order : order[k] = b
        /\ \A j, k \in DOMAIN order : j < k => order[j].date <= order[k].date

\* GET /api/reports/revenue-trends?startDate=..&endDate=..&groupBy=..
GetRevenueTrends(self, startDate, endDate, groupBy) ==
    /\ ~Busy(self)
    /\ IF startDate = {} \/ endDate = {}
       THEN Respond(self, [Idle EXCEPT !.op = "getRevenueTrends",
                                      !.result = "ValidationError"])
       ELSE LET start == CHOOSE day \in startDate : TRUE
                end == CHOOSE day \in endDate : TRUE
            IN  Respond(self,
                    [Idle EXCEPT
                       !.op = "getRevenueTrends",
                       !.query = [NoQuery EXCEPT !.start = start,
                                                 !.end = end,
                                                 !.groupBy = groupBy],
                       !.report = [NoReport EXCEPT !.trend =
                                     SortedByDate(TrendBuckets(
                                         TrendMatched(start, end), groupBy))],
                       !.result = "ok"])
    /\ UNCHANGED <<stock, price, exists, sales, clock, tz, calls, creates, stock0, active>>

\* ------------------------------------------------------------ the clock
\* the handlers that read the clock at their next step: new Date() in
\* generateSaleNumber, the createdAt timestamp of Sale.create, voidedAt
ReadsClock(self) == proc[self].pc \in {"cs_number", "cs_create", "vs_mark"}

\* time passes; the passing of time is only visible to a handler that reads
\* the clock next, so the clock is advanced just before such a step
Tick ==
    /\ clock < MaxTime
    /\ \E self \in Procs : ReadsClock(self)
    /\ clock' = clock + 1
    /\ UNCHANGED <<stock, price, exists, sales, tz, proc, prev, calls, creates, stock0, active>>

\* ------------------------------------------------------------ specifications
Init ==
    /\ stock = InitStock
    /\ stock0 = stock
    /\ price = InitPrice
    /\ exists = Products
    /\ sales = <<>>
    /\ clock = 0
    /\ tz \in 0..(TicksPerDay - 1)
    /\ proc = [self \in Procs |-> Idle]
    /\ prev = NoCall
    /\ calls = 0
    /\ creates = 0
    /\ active = [p \in Products |-> TRUE]

SaleIds == 1..MaxCalls

\* handlers run concurrently: any handler may take its next step
Next ==
    \/ \E self \in Procs, cart \in Carts : CreateSaleFind(self, cart)
    \/ \E self \in Procs, p \in Products : CreateSaleSave(self, p)
    \/ \E self \in Procs : CreateSaleNumber(self)
    \/ \E self \in Procs : CreateSaleCreate(self)
    \/ \E self \in Procs, id \in SaleIds : VoidSaleLoad(self, id)
    \/ \E self \in Procs : VoidSaleFind(self)
    \/ \E self \in Procs, p \in Products : VoidSaleSave(self, p)
    \/ \E self \in Procs : VoidSaleMark(self)
    \/ \E p \in Products : DeleteProduct(p)
    \/ Tick

Spec == Init /\ [][Next]_vars

\* a step of the handler that process self is running
HandlerStep(self) ==
    \/ \E p \in Products : CreateSaleSave(self, p)
    \/ CreateSaleNumber(self)
    \/ CreateSaleCreate(self)
    \/ VoidSaleFind(self)
    \/ \E p \in Products : VoidSaleSave(self, p)
    \/ VoidSaleMark(self)

\* the handlers running concurrently, the requests arriving and the products
\* being deleted at any moment
CallsNext ==
    \/ \E self \in Procs, cart \in Carts : CreateSaleFind(self, cart)
    \/ \E self \in Procs, id \in SaleIds : VoidSaleLoad(self, id)
    \/ \E self \in Procs : HandlerStep(self)
    \/ \E p \in Products : DeleteProduct(p)

\* the database answers every operation and the event loop resumes the
\* handler that awaits the answer
FairSpec ==
    /\ Init
    /\ [][CallsNext]_vars
    /\ \A self \in Procs : WF_vars(HandlerStep(self))

\* one request at a time: a request is taken only when no handler is running
NextSeq ==
    \/ \E cart \in Carts : Quiet /\ CreateSaleFind(1, cart)
    \/ \E p \in Products : CreateSaleSave(1, p)
    \/ CreateSaleNumber(1)
    \/ CreateSaleCreate(1)
    \/ \E id \in SaleIds : Quiet /\ VoidSaleLoad(1, id)
    \/ VoidSaleFind(1)
    \/ \E p \in Products : VoidSaleSave(1, p)
    \/ VoidSaleMark(1)
    \/ \E p \in Products : Quiet /\ DeleteProduct(p)
    \/ Tick

SeqSpec == Init /\ [][NextSeq]_vars

\* the sales API, one request at a time, with any body a client may send
ApiNext ==
    \/ \E body \in Bodies : Quiet /\ PostSale(1, body)
    \/ \E p \in Products : CreateSaleSave(1, p)
    \/ CreateSaleNumber(1)
    \/ CreateSaleCreate(1)
    \/ \E id \in SaleIds : Quiet /\ VoidSaleLoad(1, id)
    \/ VoidSaleFind(1)
    \/ \E p \in Products : VoidSaleSave(1, p)
    \/ VoidSaleMark(1)
    \/ \E p \in Products : Quiet /\ DeleteProduct(p)

ApiSpec == Init /\ [][ApiNext]_vars

\* one request at a time, the products being edited between the sales
EditNext ==
    \/ NextSeq
    \/ \E p \in Products, patch \in Patches : Quiet /\ UpdateProduct(p, patch)

EditSpec == Init /\ [][EditNext]_vars

\* the price lists the reports are checked over
ReportPrices == {InitPrice, [p \in Products |-> 100]}

ReportInit ==
    /\ stock = InitStock
    /\ stock0 = stock
    /\ price \in ReportPrices
    /\ exists = Products
    /\ sales = <<>>
    /\ clock = 0
    /\ tz \in 0..(TicksPerDay - 1)
    /\ proc = [self \in Procs |-> Idle]
    /\ prev = NoCall
    /\ calls = 0
    /\ creates = 0
    /\ active = [p \in Products |-> TRUE]

\* one request at a time, reports being read between the sales
ReportNext ==
    \/ NextSeq
    \/ \E startDate, endDate \in Days :
          Quiet /\ GetSalesReport(1, startDate, endDate)
    \/ \E startDate, endDate \in Days, limit \in Limits :
          Quiet /\ GetTopProducts(1, startDate, endDate, limit)

ReportSpec == ReportInit /\ [][ReportNext]_vars

\* one request at a time, the revenue trends being read between the sales
TrendNext ==
    \/ NextSeq
    \/ \E startDate, endDate \in Dates, groupBy \in Granularities :
          Quiet /\ GetRevenueTrends(1, startDate, endDate, groupBy)

TrendSpec == Init /\ [][TrendNext]_vars

\* one request at a time, a voidSale call possibly failing at its last write
FaultNext ==
    \/ NextSeq
    \/ VoidSaleAbandon(1)

FaultSpec == Init /\ [][FaultNext]_vars

\* the sales handlers of one process running concurrently with the stock
\* edits of another
StockNext ==
    \/ \E cart \in Carts : CreateSaleFind(1, cart)
    \/ \E p \in Products : CreateSaleSave(1, p)
    \/ CreateSaleNumber(1)
    \/ CreateSaleCreate(1)
    \/ \E id \in SaleIds : VoidSaleLoad(1, id)
    \/ VoidSaleFind(1)
    \/ \E p \in Products : VoidSaleSave(1, p)
    \/ VoidSaleMark(1)
    \/ \E p \in Products, edit \in StockEdits : UpdateStockFind(2, p, edit)
    \/ UpdateStockSave(2)

StockSpec == Init /\ [][StockNext]_vars

\* ------------------------------------------------------------ claims
\* quantity of product p in the persisted sales that are not void
Sold(p) ==
    SumSeq([i \in 1..Len(sales) |->
              IF sales[i].isVoid THEN 0 ELSE QtyOf(sales[i].items, p)],
           Len(sales))

Done(self, op) == proc[self].pc = "done" /\ proc[self].op = op

\* C1: once every createSale and voidSale call has completed, whatever the
\* interleaving of their reads and writes, every product's stockQuantity is
\* its initial stockQuantity minus the quantities of that product in the
\* persisted sales that are not void.  Stated for the runs in which no
\* product was deleted and every createSale call persisted its sale.
C1_StockConservation ==
    (Quiet /\ exists = Products /\ Len(sales) = creates)
        => \A p \in Products : stock[p] = stock0[p] - Sold(p)

\* C2: in every reachable state the persisted stockQuantity of every product
\* is at least 0.
C2_StockNeverNegative == \A p \in Products : stock[p] >= MinStockQuantity

\* two sales stand, neither void, that together sold more of one product
\* than there ever was
C2_Oversold ==
    /\ Quiet
    /\ Len(sales) = 2
    /\ ~sales[1].isVoid /\ ~sales[2].isVoid
    /\ \E p \in Products :
          QtyOf(sales[1].items, p) + QtyOf(sales[2].items, p) > stock0[p]

C4_VoidRestoresOnce ==
    /\ \A a, b \in Procs :
          (a # b /\ Done(a, "voidSale") /\ Done(b, "voidSale")
               /\ proc[a].saleId = proc[b].saleId)
              => ~(proc[a].result = "ok" /\ proc[b].result = "ok")
    /\ (Quiet /\ creates = 1 /\ Len(sales) = 1 /\ sales[1].isVoid
              /\ exists = Products)
          => stock = stock0

\* a createSale request is answered with InsufficientStock in this step
InsufficientResponse ==
    /\ calls' = calls + 1
    /\ proc'[1].pc = "done"
    /\ proc'[1].op = "createSale"
    /\ proc'[1].result = "InsufficientStock"

\* C5: a createSale call that fails with InsufficientStock leaves the
\* stockQuantity of every product as it was, persists no sale, and reports
\* the requested quantity of a line item together with the stock of its
\* product, which is less than the requested quantity.
C5_InsufficientStockChangesNothing ==
    [][InsufficientResponse =>
         /\ stock' = stock
         /\ sales' = sales
         /\ \E i \in 1..Len(proc'[1].cart) :
               /\ proc'[1].requested = proc'[1].cart[i].quantity
               /\ proc'[1].available = stock[proc'[1].cart[i].product]
               /\ proc'[1].available < proc'[1].requested]_vars

\* the second line item of a cart is short of stock while the first one,
\* of another product, is not
C5_SecondItemShort ==
    /\ Done(1, "createSale")
    /\ proc[1].result = "InsufficientStock"
    /\ Len(proc[1].cart) = 2
    /\ proc[1].cart[1].product # proc[1].cart[2].product
    /\ proc[1].cart[1].quantity <= stock[proc[1].cart[1].product]
    /\ proc[1].requested = proc[1].cart[2].quantity
    /\ proc[1].available = stock[proc[1].cart[2].product]

\* C6: when createSale fails after the decremented stock of a product has
\* been written, the stock of every product is back to its value before the
\* call by the time the call has ended: in no final state has stock been
\* decremented while no sale was persisted.
C6_NoStockLeak ==
    (Quiet /\ sales = <<>>) => \A p \in exists : stock[p] = stock0[p]

\* every product of the cart exists and every item's quantity is at most the
\* stock of its product, in the collection as the handler found it
Sufficient(cart, db) ==
    \A i \in 1..Len(cart) :
        /\ cart[i].product \in db.exists
        /\ cart[i].quantity <= db.stock[cart[i].product]

\* C7: a createSale call that runs alone on a cart whose products all exist
\* and whose quantities are at most the stock of their products succeeds,
\* and afterwards the stock of every product is its value before the call
\* minus the quantity requested of it.
C7_SufficientCartSucceeds ==
    (Done(1, "createSale") /\ Sufficient(proc[1].cart, proc[1].before))
        => /\ proc[1].result = "ok"
           /\ \A p \in Products :
                 stock[p] = proc[1].before.stock[p] - QtyOf(proc[1].cart, p)

\* a voidSale call ends in this step, and the call that ended last before it
\* is the createSale call that created the sale
VoidAfterCreate ==
    /\ prev.op = "createSale"
    /\ prev.result = "ok"
    /\ prev'.op = "voidSale"
    /\ prev'.saleId = prev.saleId

\* C8: createSale followed by voidSale of the resulting sale, with no other
\* operation in between, returns the stockQuantity of every product to its
\* value before the createSale and leaves the sale with isVoid = true.
C8_VoidUndoesCreate ==
    [][VoidAfterCreate =>
         /\ prev'.result = "ok"
         /\ stock' = prev.before
         /\ sales'[prev.saleId].isVoid]_vars

\* a sale of two line items has been created and then voided
C8_CreatedThenVoided ==
    /\ calls = 2
    /\ prev.op = "voidSale" /\ prev.result = "ok"
    /\ Len(sales) = 1
    /\ Len(sales[1].items) = 2
    /\ sales[1].isVoid
    /\ stock = stock0

\* a voidSale request for a sale that is void arrives in this step
VoidRequestOnVoided ==
    /\ calls' = calls + 1
    /\ exists' = exists
    /\ proc'[1].op = "voidSale"
    /\ proc'[1].saleId <= Len(sales)
    /\ sales[proc'[1].saleId].isVoid

\* C9: a voidSale call on a sale whose isVoid is true fails with AlreadyVoid
\* and changes no product's stockQuantity and no field of the sale.
C9_AlreadyVoidChangesNothing ==
    [][VoidRequestOnVoided =>
         /\ proc'[1].pc = "done"
         /\ proc'[1].result = "AlreadyVoid"
         /\ stock' = stock
         /\ sales' = sales]_vars

\* a second voidSale call on the same sale has been turned down
C9_SecondVoidRefused ==
    /\ prev.op = "voidSale" /\ prev.result = "AlreadyVoid"
    /\ Len(sales) >= prev.saleId
    /\ sales[prev.saleId].isVoid
    /\ sales[prev.saleId].voidedBy = UserOf(1)

\* every sale of the local day of time t lies in the window counted at t
DayFullyCounted(t) ==
    \A i \in 1..Len(sales) :
        LocalDay(sales[i].createdAt) = LocalDay(t)
            => sales[i].createdAt < EndOfLocalDay(t)

\* C10: createSale calls made one after another, at any times, get pairwise
\* distinct sale numbers, the date part of a number and the day whose sales
\* are counted for its sequence being the same day: the number a call is
\* about to obtain is the number of no persisted sale.
C10_SequentialNumbersFresh ==
    (proc[1].pc = "cs_number" /\ DayFullyCounted(clock))
        => ~SaleNumberTaken(GenerateSaleNumber(clock))

\* ---------------------------------------------------------------- money
\* an amount in hundredths of a cent, rounded to two decimal places of the
\* currency unit (whole cents), half up
RoundToCents(h) == ((h + 50) \div 100) * 100

\* sum over the line items of unit price times quantity
LineTotal(items) ==
    SumSeq([i \in 1..Len(items) |-> items[i].price * items[i].quantity],
           Len(items))

\* C11: every persisted sale has tax = 12% of subtotal, subtotal = the sum
\* over its line items of unit price times quantity, and total = subtotal +
\* tax - discount rounded to two decimal places, also when the 12% tax of
\* the subtotal is not a whole cent.
C11_SaleArithmetic ==
    \A i \in 1..Len(sales) :
        LET s == sales[i]
        IN  /\ s.tax = s.subtotal * 12
            /\ s.subtotal = LineTotal(s.items)
            /\ s.total = RoundToCents(s.subtotal * 100 + s.tax - s.discount * 100)

\* C12: the sale persisted by a createSale call has discount 0 when the
\* request supplied none, and discount d and total = subtotal + tax - d
\* when the request supplied the discount d >= 0.
C12_DiscountApplied ==
    (Done(1, "createSale") /\ proc[1].result = "ok")
        => LET s == sales[proc[1].saleId]
           IN  /\ proc[1].discount = {} => s.discount = 0
               /\ \A d \in proc[1].discount :
                     /\ s.discount = d
                     /\ s.total = s.subtotal * 100 + s.tax - d * 100

\* a call of process 1 ends in this step with a validation error or with
\* a not-found response
RefusedCall ==
    /\ proc'[1].pc = "done"
    /\ proc[1].pc # "done" \/ calls' = calls + 1
    /\ \/ /\ proc'[1].op = "createSale"
          /\ proc'[1].result \in {"ValidationError", "NotFound"}
       \/ /\ proc'[1].op = "voidSale"
          /\ proc'[1].result = "NotFound"

\* C13: a createSale call that ends in a validation error (empty cart,
\* quantity below 1, payment method outside the allowed set) or in
\* ProductNotFound, and a voidSale call that ends in NotFound, change no
\* product's stockQuantity, create no sale and modify no sale: the call is
\* answered in the step in which it arrives, and the stock is as the call
\* found it.
C13_RefusedCallChangesNothing ==
    [][RefusedCall =>
         /\ calls' = calls + 1
         /\ stock' = stock
         /\ stock' = proc'[1].before.stock
         /\ sales' = sales]_vars

\* after a sale has been persisted, a request with an item of quantity 0
\* and a payment method outside the allowed set has been refused
C13_BadRequestAfterSale ==
    /\ Len(sales) >= 1
    /\ Done(1, "createSale")
    /\ proc[1].result = "ValidationError"
    /\ proc[1].errors = {"Quantity must be at least 1", "Invalid payment method"}
    /\ \E p \in Products : stock[p] # stock0[p]

\* the claim as stated: a createSale request is refused with
\* InvalidPaymentMethod exactly when its payment method is none of cash,
\* card, mobile and other.
C14_SpecifiedMethodsAccepted ==
    Done(1, "createSale")
        => ("Invalid payment method" \in proc[1].errors
               <=> proc[1].paymentMethod \notin SpecifiedMethods)

\* C14 (amended): createSale accepts exactly the payment methods cash, card,
\* mobile_payment and other: a request with any of these four values is not
\* refused for its payment method, and reaches the handler when its other
\* fields are valid; a request with any other value, mobile included, is
\* refused with a validation error that names the payment method.
C14_AcceptedMethods ==
    Done(1, "createSale")
        => IF proc[1].paymentMethod \in {"cash", "card", "mobile_payment", "other"}
           THEN /\ "Invalid payment method" \notin proc[1].errors
                /\ proc[1].errors = {} => proc[1].result # "ValidationError"
           ELSE /\ proc[1].result = "ValidationError"
                /\ "Invalid payment method" \in proc[1].errors

\* a sale paid by mobile_payment has been persisted, and a request that is
\* valid but for its payment method mobile has been refused
C14_MobileRefused ==
    /\ Len(sales) >= 1
    /\ sales[1].paymentMethod = "mobile_payment"
    /\ Done(1, "createSale")
    /\ proc[1].paymentMethod = "mobile"
    /\ proc[1].errors = {"Invalid payment method"}

\* a createSale request arrives in this step at the handler, with a cart
\* that has an item of a product whose isActive is false
InactiveRequest ==
    /\ creates' = creates + 1
    /\ \E i \in 1..Len(proc'[1].cart) :
          /\ proc'[1].cart[i].product \in exists
          /\ ~active[proc'[1].cart[i].product]

\* C15: createSale on a cart that references a product whose active flag is
\* false fails with ProductNotFound, persists no sale and leaves the stock
\* unchanged: the request is answered in the step in which it arrives.
C15_InactiveProductRefused ==
    [][InactiveRequest =>
         /\ proc'[1].pc = "done"
         /\ proc'[1].result = "NotFound"
         /\ stock' = stock
         /\ sales' = sales]_vars

\* C16: isVoid of a sale only changes from false to true; voidedAt and
\* voidedBy are written by the step that sets isVoid to true and by no
\* other; no other field of a persisted sale ever changes, and no sale is
\* removed.
C16_SaleImmutable ==
    [][/\ Len(sales') >= Len(sales)
       /\ \A i \in 1..Len(sales) :
             IF sales[i].isVoid
             THEN sales'[i] = sales[i]
             ELSE \/ sales'[i] = sales[i]
                  \/ /\ sales'[i].isVoid
                     /\ sales'[i] = [sales[i] EXCEPT
                                       !.isVoid = TRUE,
                                       !.voidedAt = sales'[i].voidedAt,
                                       !.voidedBy = sales'[i].voidedBy]]_vars

\* the amounts of a sale: the price and subtotal of every line, and the
\* subtotal, tax and total of the sale
Amounts(sale) ==
    [lines |-> [i \in 1..Len(sale.items) |->
                  <<sale.items[i].price, sale.items[i].subtotal>>],
     subtotal |-> sale.subtotal, tax |-> sale.tax, total |-> sale.total]

\* C17: the unit price of every line item of a sale is the price of the
\* product when the sale is created, and the line subtotal that price times
\* the quantity; no later step, a price change or the deletion of the
\* product included, changes the line prices, line subtotals, subtotal, tax
\* or total of a persisted sale.
C17_PriceSnapshot ==
    [][/\ Len(sales') = Len(sales) + 1
          => LET s == sales'[Len(sales')]
             IN  \A i \in 1..Len(s.items) :
                    /\ s.items[i].price = price[s.items[i].product]
                    /\ s.items[i].subtotal
                          = price[s.items[i].product] * s.items[i].quantity
       /\ \A i \in 1..Len(sales) : Amounts(sales'[i]) = Amounts(sales[i])]_vars

\* a sale made at the new price of a product stands next to a sale made at
\* its old price
C17_SoldAtOldPrice ==
    /\ Len(sales) = 2
    /\ sales[1].items[1].product = sales[2].items[1].product
    /\ sales[1].items[1].price # sales[2].items[1].price
    /\ sales[2].items[1].price = price[sales[2].items[1].product]

\* ---------------------------------------------------------------- reports
\* the day of every time, in UTC and in the local time of the server
UtcDays == [t \in 0..MaxTime |-> UtcDay(t)]

LocalDays == [t \in 0..MaxTime |-> LocalDay(t)]

\* the sales that are not void and were created on the days from startDate
\* to endDate, a time t being of day dayOf[t]
NonVoidIn(dayOf, startDate, endDate) ==
    {i \in 1..Len(sales) :
        /\ ~sales[i].isVoid
        /\ dayOf[sales[i].createdAt] >= startDate
        /\ dayOf[sales[i].createdAt] <= endDate}

\* count, revenue and tax of the sales in the set
TotalsOf(set) ==
    [totalSales |-> Cardinality(set),
     totalRevenue |-> SumOver(set, "total"),
     totalVAT |-> SumOver(set, "tax")]

Totals(report) ==
    [totalSales |-> report.totalSales,
     totalRevenue |-> report.totalRevenue,
     totalVAT |-> report.totalVAT]

\* the report op has been returned and no request has been served since
Reported(op) == Done(1, op) /\ prev.op = op

\* C18: salesSummary(start, end) returns the count, revenue and tax of
\* exactly the sales that are not void and whose createdAt lies between the
\* beginning of the start day and the end of the end day, in one fixed
\* timezone convention: whenever a summary has been returned, the summary of
\* every window is that of the sales of its days, the days being either the
\* days of UTC for all windows or the server-local days for all windows.
C18_SummaryOverWindow ==
    Reported("getSalesReport")
        => /\ proc[1].report
                 = SalesReport(proc[1].query.start, proc[1].query.end)
           /\ \/ \A startDate, endDate \in Days :
                     Totals(SalesReport(startDate, endDate))
                         = TotalsOf(NonVoidIn(UtcDays, startDate, endDate))
              \/ \A startDate, endDate \in Days :
                     Totals(SalesReport(startDate, endDate))
                         = TotalsOf(NonVoidIn(LocalDays, startDate, endDate))

\* C19: the average of a sales summary is revenue / count when the count is
\* above 0, and 0, with count, revenue and tax 0, when no sale that is not
\* void matches the window; it is a number in every case.
C19_AverageGuarded ==
    Reported("getSalesReport")
        => LET r == proc[1].report
               a == r.averageSaleValue
           IN  /\ a.kind = "number"
               /\ r.totalSales > 0
                     => a.num * r.totalSales = r.totalRevenue * a.den
               /\ SalesMatched(proc[1].query.start, proc[1].query.end) = {}
                     => /\ r.totalSales = 0
                        /\ r.totalRevenue = 0
                        /\ r.totalVAT = 0
                        /\ a.num = 0

\* a summary has been returned for a window whose only sale is void
C19_OnlyVoidedInWindow ==
    /\ Reported("getSalesReport")
    /\ proc[1].report.totalSales = 0
    /\ proc[1].report.averageSaleValue = Zero
    /\ \E i \in 1..Len(sales) :
          /\ sales[i].isVoid
          /\ sales[i].createdAt >= DateOf(proc[1].query.start)
          /\ sales[i].createdAt <= EndOfLocalDay(DateOf(proc[1].query.end))

\* product identities in ascending order
ProductRank(p) == IF p = "A" THEN 1 ELSE 2

\* entry a comes before entry b: more revenue, or the same revenue and more
\* quantity, or the same of both and the lesser product identity
ComesBefore(a, b) ==
    \/ a.totalRevenue > b.totalRevenue
    \/ /\ a.totalRevenue = b.totalRevenue
       /\ a.totalQuantity > b.totalQuantity
    \/ /\ a.totalRevenue = b.totalRevenue
       /\ a.totalQuantity = b.totalQuantity
       /\ ProductRank(a.productId) < ProductRank(b.productId)

\* C20: topProducts(start, end, limit) returns at most limit entries, one
\* per product, aggregated over the line items of the sales that are not
\* void, in the order of revenue descending, then quantity descending, then
\* product identity ascending; the entries left out by the limit come after
\* the entries returned in that order.
C20_TopProductsOrdered ==
    Reported("getTopProducts")
        => LET top == proc[1].report.top
               q == proc[1].query
               entries == TopEntries(TopMatched(q.start, q.end))
           IN  /\ Len(top) <= q.limit
               /\ \A k \in 1..Len(top) : top[k] \in entries
               /\ \A j, k \in 1..Len(top) :
                     j < k => /\ top[j].productId # top[k].productId
                              /\ ComesBefore(top[j], top[k])
               /\ \A e \in entries :
                     (\A k \in 1..Len(top) : top[k] # e)
                         => /\ Len(top) = q.limit
                            /\ \A k \in 1..Len(top) : ComesBefore(top[k], e)
               /\ \A e \in entries :
                     e.totalQuantity
                         = SumSeq([i \in 1..Len(sales) |->
                                     IF i \in TopMatched(q.start, q.end)
                                        /\ ~sales[i].isVoid
                                     THEN QtyOf(sales[i].items, e.productId)
                                     ELSE 0],
                                  Len(sales))

C22_RestoredAtMostOnce ==
    /\ \A p \in Products : stock[p] <= stock0[p]
    /\ (Quiet /\ exists = Products /\ Len(sales) = creates
              /\ \A i \in 1..Len(sales) : sales[i].isVoid)
          => stock = stock0

\* C23: createSale reserves the stock, then obtains the sale number, then
\* persists the sale: at the step that persists a sale the stock of every
\* product of its line items is already the stock at the arrival of the
\* request less the quantity sold, the sale carries the number obtained,
\* and it is persisted with isVoid false.
C23_ReserveNumberPersist ==
    [][Len(sales') = Len(sales) + 1
          => LET new == sales'[Len(sales')]
             IN  /\ proc[1].pc = "cs_create"
                 /\ \A p \in ProductIds(new.items) :
                       stock[p] = proc[1].before.stock[p] - QtyOf(new.items, p)
                 /\ new.saleNumber = proc[1].number
                 /\ new.saleNumber # NoNumber
                 /\ new.isVoid = FALSE]_vars

\* a sale of two line items has been persisted
C23_TwoItemsPersisted ==
    /\ Done(1, "createSale")
    /\ proc[1].result = "ok"
    /\ Len(sales[proc[1].saleId].items) = 2

\* C24: when a createSale call, or the voidSale call for the sale created,
\* runs concurrently with an updateStock call with operation 'add' on one
\* of its products, neither update is lost: these being the only calls and
\* all completed with success, the stockQuantity of the product is its
\* initial value plus the quantity added minus the quantity sold in the
\* sales that are not void.
C24_NoLostStockEdit ==
    (/\ Done(1, "createSale") \/ Done(1, "voidSale")
     /\ proc[1].result = "ok"
     /\ Done(2, "updateStock")
     /\ proc[2].result = "ok"
     /\ proc[2].operation = "add"
     /\ creates = 1
     /\ Len(sales) = 1
     /\ calls = IF sales[1].isVoid THEN 3 ELSE 2)
        => LET p == proc[2].cart[1].product
           IN  stock[p] = stock0[p] + proc[2].cart[1].quantity - Sold(p)

\* C25: the sale numbers of the sales created one after the other within
\* one calendar day, the day their numbers carry, have strictly increasing
\* sequence parts in the order of creation, voided sales included, and the
\* first sale of a day has the sequence part 1.
C25_SequenceIncreasesFromOne ==
    /\ \A i, j \in 1..Len(sales) :
          (i < j /\ sales[i].saleNumber.date = sales[j].saleNumber.date)
              => sales[i].saleNumber.seq < sales[j].saleNumber.seq
    /\ \A j \in 1..Len(sales) :
          (\A i \in 1..(j - 1) :
               sales[i].saleNumber.date # sales[j].saleNumber.date)
              => sales[j].saleNumber.seq = 1

\* the database steps a handler has at most before it answers
StepsLeft(rec) ==
    CASE rec.pc = "cs_save" -> 2 + Cardinality(rec.pending)
      [] rec.pc = "cs_number" -> 2
      [] rec.pc = "cs_create" -> 1
      [] rec.pc = "vs_find" -> 2 + Len(rec.items)
      [] rec.pc = "vs_save" -> 1 + Cardinality(rec.pending)
      [] rec.pc = "vs_mark" -> 1
      [] OTHER -> 0

\* process self takes a step of a createSale or voidSale call
CallStep(self) ==
    /\ proc'[self] # proc[self]
    /\ proc'[self].op \in {"createSale", "voidSale"}

\* C26: every createSale and voidSale call finishes after a bounded number
\* of database steps, every step of a running call leaving it fewer steps
\* to take, never waiting for another call; it answers once, with the sale
\* it persisted or with one error and no sale; and a createSale call that
\* finds the stock insufficient answers at its first step, nothing written.
C26_CallsFinish ==
    /\ [][\A self \in Procs :
            CallStep(self)
                => /\ Busy(self) => StepsLeft(proc'[self]) < StepsLeft(proc[self])
                   /\ ~Busy(self) => StepsLeft(proc'[self]) <= 2 + MaxItems
                   /\ proc'[self].pc = "done"
                        => /\ proc'[self].result \in
                                 {"ok", "NotFound", "InsufficientStock",
                                  "AlreadyVoid", "error"}
                           /\ proc'[self].op = "createSale"
                                => (proc'[self].result = "ok"
                                       <=> Len(sales') = Len(sales) + 1)
                           /\ proc'[self].op = "voidSale"
                                => (proc'[self].result = "ok"
                                       <=> sales' # sales)
                   /\ proc'[self].result = "InsufficientStock"
                        => ~Busy(self) /\ stock' = stock /\ sales' = sales]_vars
    /\ \A self \in Procs : Busy(self) ~> ~Busy(self)

\* a createSale call has ended with an error after its saves, while the
\* other process has a call under way
C26_ErrorWhileOtherRuns ==
    /\ Done(1, "createSale")
    /\ proc[1].result = "error"
    /\ Busy(2)

\* C27: when a stock-restoring save of a voidSale call fails, the call is
\* answered with an error that is neither NotFound nor AlreadyVoid, the
\* sale is not marked void, and no product is left with its quantity
\* restored: with no other call under way, every remaining product's stock
\* is the stock at the arrival of the request.
C27_FailedRestoreLeavesNoTrace ==
    (/\ Done(1, "voidSale")
     /\ proc[1].failed
     /\ proc[2].pc = "idle")
        => /\ proc[1].result = "error"
           /\ ~sales[proc[1].saleId].isVoid
           /\ \A p \in exists : stock[p] = proc[1].before.stock[p]

\* the line items name pairwise distinct products
DistinctProducts(items) == Cardinality(ProductIds(items)) = Len(items)

\* C28: the line items of every persisted sale name pairwise distinct
\* products, so that voidSale never compares the count of the products found
\* with the count of the line items of a sale that repeats a product; and a
\* createSale call whose cart names one product in more than one line item
\* is answered with NotFound, nothing changed.
C28_DistinctProducts ==
    /\ [](/\ \A i \in 1..Len(sales) : DistinctProducts(sales[i].items)
          /\ proc[1].pc = "vs_find" => DistinctProducts(proc[1].items))
    /\ [][(/\ proc'[1] # proc[1]
           /\ proc'[1].op = "createSale"
           /\ ~DistinctProducts(proc'[1].cart))
              => /\ proc'[1].pc = "done"
                 /\ proc'[1].result = "NotFound"
                 /\ UNCHANGED <<stock, price, exists, sales>>]_vars

\* a cart that names a product twice, within the stock, has been refused
C28_DuplicateRefused ==
    /\ Done(1, "createSale")
    /\ proc[1].result = "NotFound"
    /\ ~DistinctProducts(proc[1].cart)
    /\ ProductIds(proc[1].cart) \subseteq proc[1].before.exists
    /\ Sufficient(proc[1].cart, proc[1].before)

\* C29: a voidSale call for a sale that is not void, one of whose products
\* was deleted before the call, is answered with NotFound and changes
\* nothing, at every attempt: the stock is the stock at the arrival of the
\* request and the sale stays not void.
C29_DeletedProductNotFound ==
    (/\ Done(1, "voidSale")
     /\ proc[1].saleId <= Len(sales)
     /\ ~(ProductIds(sales[proc[1].saleId].items) \subseteq proc[1].before.exists)
     /\ proc[1].result # "AlreadyVoid")
        => /\ proc[1].result = "NotFound"
           /\ stock = proc[1].before.stock
           /\ ~sales[proc[1].saleId].isVoid

\* C30: for the same start and end dates topProducts aggregates the line
\* items of the sales that salesSummary counts, the sales of the end day
\* included: no product being deleted and the limit cutting nothing off,
\* the totalRevenue of the entries of topProducts adds up to the sum of the
\* subtotals of the sales of the summary.
C30_TopProductsCoverSummary ==
    (/\ Reported("getTopProducts")
     /\ exists = Products
     /\ proc[1].query.limit = Cardinality(Products))
        => LET q == proc[1].query
               top == proc[1].report.top
           IN  SumSeq([k \in DOMAIN top |-> top[k].totalRevenue], Len(top))
                  = SumOver(SalesMatched(q.start, q.end), "subtotal")
====
